---- MODULE Spec2Model ----
(***************************************************************************)
(* The order-taking dialogue of ordertaker.py: the OrderSystem state       *)
(* machine, its lexical extractors, the tool-call parser and the POS       *)
(* validator/committer.                                                    *)
(*                                                                         *)
(* A Python str is a sequence of one-character strings, so that `in`,      *)
(* lower(), title(), replace() and the regular expressions of the source   *)
(* are computed on the characters.  Other Python values are tagged         *)
(* records; a dict is a function from key names to values.                 *)
(***************************************************************************)
EXTENDS Integers, Sequences, FiniteSets, TLC

\* ------------------------------------------------------------------------
\* Python values
\* ------------------------------------------------------------------------
NoneV == [t |-> "None"]
EllipsisV == [t |-> "Ellipsis"]
StrV(s) == [t |-> "str", s |-> s]
IntV(n) == [t |-> "int", n |-> n]

IsStr(v) == v.t = "str"

\* bool(v)
Truthy(v) ==
    CASE v.t = "None" -> FALSE
      [] v.t = "str" -> Len(v.s) > 0
      [] v.t = "int" -> v.n # 0
      [] OTHER -> TRUE

EmptyDict == << >>
\* d.get(k)
DictGet(d, k) == IF k \in DOMAIN d THEN d[k] ELSE NoneV
\* d[k] = v
DictSet(d, k, v) == (k :> v) @@ d

\* ------------------------------------------------------------------------
\* str operations
\* ------------------------------------------------------------------------
UpperToLower ==
    [A |-> "a", B |-> "b", C |-> "c", D |-> "d", E |-> "e", F |-> "f",
     G |-> "g", H |-> "h", I |-> "i", J |-> "j", K |-> "k", L |-> "l",
     M |-> "m", N |-> "n", O |-> "o", P |-> "p", Q |-> "q", R |-> "r",
     S |-> "s", T |-> "t", U |-> "u", V |-> "v", W |-> "w", X |-> "x",
     Y |-> "y", Z |-> "z"]
LowerToUpper ==
    [a |-> "A", b |-> "B", c |-> "C", d |-> "D", e |-> "E", f |-> "F",
     g |-> "G", h |-> "H", i |-> "I", j |-> "J", k |-> "K", l |-> "L",
     m |-> "M", n |-> "N", o |-> "O", p |-> "P", q |-> "Q", r |-> "R",
     s |-> "S", t |-> "T", u |-> "U", v |-> "V", w |-> "W", x |-> "X",
     y |-> "Y", z |-> "Z"]
Digits == <<"0", "1", "2", "3", "4", "5", "6", "7", "8", "9">>

IsUpper(c) == c \in DOMAIN UpperToLower
IsLower(c) == c \in DOMAIN LowerToUpper
IsAlpha(c) == IsUpper(c) \/ IsLower(c)
IsDigit(c) == \E d \in 1..10 : Digits[d] = c
\* a \w character of a regular expression
IsWordChar(c) == IsAlpha(c) \/ IsDigit(c) \/ c = "_"

LowerChar(c) == IF IsUpper(c) THEN UpperToLower[c] ELSE c
UpperChar(c) == IF IsLower(c) THEN LowerToUpper[c] ELSE c

\* s.lower()
Lower(s) == << >> \o [i \in 1..Len(s) |-> LowerChar(s[i])]

\* s.title(): the first letter of every run of letters in upper case, the
\* other letters in lower case
Title(s) ==
    << >> \o [i \in 1..Len(s) |->
        IF IsAlpha(s[i])
        THEN IF i = 1 \/ ~IsAlpha(s[i - 1]) THEN UpperChar(s[i]) ELSE LowerChar(s[i])
        ELSE s[i]]

\* k in s
Contains(s, k) ==
    \E i \in 0..(Len(s) - Len(k)) : SubSeq(s, i + 1, i + Len(k)) = k

\* s.replace(c, "") for a one-character c
RemoveChar(s, c) == SelectSeq(s, LAMBDA x : x # c)

\* \b at the gap after position i of s (0 is the start, Len(s) the end)
WordBoundary(s, i) ==
    LET before == i >= 1 /\ IsWordChar(s[i])
        after == i < Len(s) /\ IsWordChar(s[i + 1])
    IN before # after

\* re.search(r"\b" + k + r"\b", s)
SearchWord(s, k) ==
    \E i \in 0..(Len(s) - Len(k)) :
        /\ SubSeq(s, i + 1, i + Len(k)) = k
        /\ WordBoundary(s, i)
        /\ WordBoundary(s, i + Len(k))

\* the last position of the run of digits of s that starts at position i
DigitRunEnd(s, i) ==
    CHOOSE j \in i..Len(s) :
        /\ \A k \in i..j : IsDigit(s[k])
        /\ (j = Len(s) \/ ~IsDigit(s[j + 1]))

DigitValue(c) == (CHOOSE d \in 1..10 : Digits[d] = c) - 1

\* int(s) for a str of digits
RECURSIVE ParseInt(_)
ParseInt(s) ==
    IF Len(s) = 0 THEN 0
    ELSE 10 * ParseInt(SubSeq(s, 1, Len(s) - 1)) + DigitValue(s[Len(s)])

\* the first member of a sequence of strs that s contains, as <<member>>,
\* or << >>
RECURSIVE FirstContained(_, _)
FirstContained(s, keys) ==
    IF Len(keys) = 0 THEN << >>
    ELSE IF Contains(s, Head(keys)) THEN <<Head(keys)>>
    ELSE FirstContained(s, Tail(keys))

\* any(k in s for k in keys)
AnyContained(s, keys) == \E i \in 1..Len(keys) : Contains(s, keys[i])

\* ------------------------------------------------------------------------
\* The menu (menu.xlsx, read by load_menu): rows of <<Category, Item>>
\* ------------------------------------------------------------------------
MenuRows ==
    << <<<<"P","i","z","z","a">>, <<"C","h","i","c","k","e","n"," ","S","u","r","p","r","i","s","e">>>>,
       <<<<"P","i","z","z","a">>, <<"J","a","m","a","i","c","a","n"," ","B","B","Q">>>>,
       <<<<"D","r","i","n","k","s">>, <<"C","o","k","e">>>> >>

\* load_menu: the lower-cased items of the rows whose category contains
\* "pizza" or "flavor"
RECURSIVE load_menu_flavors(_)
load_menu_flavors(rows) ==
    IF Len(rows) = 0 THEN << >>
    ELSE LET cat == Head(rows)[1]
             item == Head(rows)[2]
         IN (IF Contains(Lower(cat), <<"p","i","z","z","a">>) \/ Contains(Lower(cat), <<"f","l","a","v","o","r">>)
             THEN <<Lower(item)>> ELSE << >>)
            \o load_menu_flavors(Tail(rows))

PIZZA_FLAVORS == load_menu_flavors(MenuRows)
PIZZA_SIZES == <<<<"s","m","a","l","l">>, <<"r","e","g","u","l","a","r">>, <<"m","e","d","i","u","m">>, <<"l","a","r","g","e">>, <<"x","x","l">>>>

\* ------------------------------------------------------------------------
\* Order parsing helpers
\* ------------------------------------------------------------------------
number_words ==
    << <<<<"o","n","e">>, 1>>, <<<<"t","w","o">>, 2>>, <<<<"t","h","r","e","e">>, 3>>, <<<<"f","o","u","r">>, 4>>,
       <<<<"f","i","v","e">>, 5>>, <<<<"s","i","x">>, 6>>, <<<<"s","e","v","e","n">>, 7>>, <<<<"e","i","g","h","t">>, 8>>,
       <<<<"n","i","n","e">>, 9>>, <<<<"t","e","n">>, 10>> >>

\* the starts of the matches of \b(\d+)\b in text: runs of digits with no
\* word character on either side
DigitTokenStarts(text) ==
    {i \in 1..Len(text) :
        /\ IsDigit(text[i])
        /\ WordBoundary(text, i - 1)
        /\ WordBoundary(text, DigitRunEnd(text, i))}

RECURSIVE FirstNumberWord(_, _)
FirstNumberWord(text_lower, words) ==
    IF Len(words) = 0 THEN 1
    ELSE IF Contains(text_lower, Head(words)[1]) THEN Head(words)[2]
    ELSE FirstNumberWord(text_lower, Tail(words))

extract_quantity(text) ==
    LET starts == DigitTokenStarts(text)
    IN IF starts # {}
       THEN LET i == CHOOSE a \in starts : \A b \in starts : a <= b
            IN ParseInt(SubSeq(text, i, DigitRunEnd(text, i)))
       ELSE FirstNumberWord(Lower(text), number_words)

\* the flavor as <<flavor>>, or << >> for None
detect_pizza_flavor(text) == FirstContained(Lower(text), PIZZA_FLAVORS)

typo_map ==
    << <<<<"s","m","a","l">>, <<"s","m","a","l","l">>>>, <<<<"s","m","l">>, <<"s","m","a","l","l">>>>,
       <<<<"r","e","g">>, <<"r","e","g","u","l","a","r">>>>, <<<<"n","o","r","m","a","l">>, <<"r","e","g","u","l","a","r">>>>,
       <<<<"m","e","d">>, <<"m","e","d","i","u","m">>>>, <<<<"m","e","d","u","m">>, <<"m","e","d","i","u","m">>>>,
       <<<<"l","a","r","j">>, <<"l","a","r","g","e">>>>, <<<<"l","a","r","g">>, <<"l","a","r","g","e">>>>, <<<<"l","r","g">>, <<"l","a","r","g","e">>>>,
       <<<<"x","l">>, <<"x","x","l">>>>, <<<<"e","x","t","r","a"," ","l","a","r","g","e">>, <<"x","x","l">>>> >>

\* sorted(pairs, key=len of the key, reverse=True): stable, longest first
RECURSIVE SortedByLenDesc(_, _)
SortedByLenDesc(pairs, n) ==
    IF n = 0 THEN << >>
    ELSE SelectSeq(pairs, LAMBDA p : Len(p[1]) = n) \o SortedByLenDesc(pairs, n - 1)

MaxKeyLen(pairs) ==
    CHOOSE n \in {Len(pairs[i][1]) : i \in 1..Len(pairs)} :
        \A i \in 1..Len(pairs) : Len(pairs[i][1]) <= n

sorted_typos == SortedByLenDesc(typo_map, MaxKeyLen(typo_map))

RECURSIVE FirstTypo(_, _)
FirstTypo(text_lower, pairs) ==
    IF Len(pairs) = 0 THEN << >>
    ELSE IF Contains(text_lower, Head(pairs)[1]) THEN <<Head(pairs)[2]>>
    ELSE FirstTypo(text_lower, Tail(pairs))

\* the size as <<size>>, or << >> for None
detect_pizza_size(text) ==
    LET text_lower == Lower(text)
        typo == FirstTypo(text_lower, sorted_typos)
    IN IF typo # << >> THEN typo ELSE FirstContained(text_lower, PIZZA_SIZES)

pizza_keywords == <<<<"p","i","z","z","a">>, <<"p","i","e">>, <<"p","i","z","a">>, <<"p","i","c","z","a">>, <<"p","i","z","z">>, <<"s","l","i","c","e">>>>

is_pizza_request(text) == AnyContained(Lower(text), pizza_keywords)

\* ------------------------------------------------------------------------
\* Validation helpers
\* ------------------------------------------------------------------------
is_valid_address(address) ==
    Truthy(address) /\ Len(address.s) >= 5 /\ ~Contains(address.s, <<".",".",".">>)

is_valid_phone(phone) ==
    Truthy(phone) /\ Len(phone.s) >= 9 /\ \E i \in 1..Len(phone.s) : IsDigit(phone.s[i])

\* ------------------------------------------------------------------------
\* POS API
\* ------------------------------------------------------------------------
\* str(n) for an int n >= 0
RECURSIVE IntToStr(_)
IntToStr(n) ==
    IF n < 10 THEN <<Digits[n + 1]>>
    ELSE IntToStr(n \div 10) \o <<Digits[(n % 10) + 1]>>

\* str(v)
PyStr(v) ==
    CASE v.t = "str" -> v.s
      [] v.t = "int" -> IntToStr(v.n)
      [] v.t = "None" -> <<"N","o","n","e">>
      [] OTHER -> <<"E","l","l","i","p","s","i","s">>

\* ", ".join(parts)
RECURSIVE Join(_)
Join(parts) ==
    IF Len(parts) = 0 THEN << >>
    ELSE IF Len(parts) = 1 THEN parts[1]
    ELSE parts[1] \o <<","," ">> \o Join(Tail(parts))

\* v in ["...", "", None]
IsPlaceholder(v) == v = StrV(<<".",".",".">>) \/ v = StrV(<< >>) \/ v = NoneV

RECURSIVE MissingOfItems(_, _)
MissingOfItems(items, i) ==
    IF i > Len(items) THEN << >>
    ELSE (IF IsPlaceholder(DictGet(items[i], "size"))
          THEN <<<<"s","i","z","e"," ","f","o","r"," ","i","t","e","m"," ">> \o IntToStr(i)>> ELSE << >>)
         \o (IF IsPlaceholder(DictGet(items[i], "name"))
             THEN <<<<"n","a","m","e"," ","f","o","r"," ","i","t","e","m"," ">> \o IntToStr(i)>> ELSE << >>)
         \o MissingOfItems(items, i + 1)

\* validate_order_missing without its test of the phone
validate_order_missing_no_phone(order) ==
    (IF Len(order.items) = 0 THEN <<<<"i","t","e","m","s">>>> ELSE MissingOfItems(order.items, 1))
    \o (IF ~is_valid_address(order.address) THEN <<<<"v","a","l","i","d"," ","a","d","d","r","e","s","s">>>> ELSE << >>)

\* the list `missing` that validate_order builds
validate_order_missing(order) ==
    (IF Len(order.items) = 0 THEN <<<<"i","t","e","m","s">>>> ELSE MissingOfItems(order.items, 1))
    \o (IF ~is_valid_address(order.address) THEN <<<<"v","a","l","i","d"," ","a","d","d","r","e","s","s">>>> ELSE << >>)
    \o (IF ~is_valid_phone(order.phone) THEN <<<<"v","a","l","i","d"," ","p","h","o","n","e"," ","n","u","m","b","e","r">>>> ELSE << >>)

\* what validate_order returns for the list `missing`: <<is_valid, msg>>
validate_order_result(missing) ==
    IF Len(missing) > 0
    THEN <<FALSE, <<"M","i","s","s","i","n","g"," ","d","e","t","a","i","l","s",":"," ">> \o Join(missing)>>
    ELSE <<TRUE, <<"V","a","l","i","d">>>>

validate_order(order) == validate_order_result(validate_order_missing(order))

NoPosResp == [status |-> "none"]

\* save_order_to_file: the new content of orders.json; an exception while
\* reading or writing (file_ok = FALSE) is caught and leaves the file alone
save_order_to_file(orders, order_data, file_ok) ==
    IF file_ok THEN Append(orders, order_data) ELSE orders

\* the Items column of save_order_to_csv reads item['quantity'], item['size']
\* and item['name']
ItemPrintable(item) == {"quantity", "size", "name"} \subseteq DOMAIN item

\* save_order_to_csv: the new rows of orders.csv (the Order ID column); a
\* KeyError or an I/O error is caught and leaves the file alone
save_order_to_csv(rows, order_data, csv_ok) ==
    IF csv_ok /\ \A i \in 1..Len(order_data.items) : ItemPrintable(order_data.items[i])
    THEN Append(rows, order_data.order_id)
    ELSE rows

\* the order_data of send_to_pos (its timestamp is left out)
order_data_of(order, order_id) ==
    [order_id |-> order_id,
     items |-> order.items,
     address |-> order.address,
     phone |-> order.phone,
     total_items |-> Len(order.items),
     status |-> "confirmed"]

\* send_validated saving the order before it looks at v
send_unvalidated(v, order, fs, io) ==
    [resp |-> IF ~v[1] THEN [status |-> "error", message |-> v[2]]
              ELSE [status |-> "success", order_id |-> io.order_id],
     fs |-> [orders_file |-> save_order_to_file(fs.orders_file,
                                 order_data_of(order, io.order_id), io.file_ok),
             orders_csv |-> save_order_to_csv(fs.orders_csv,
                                 order_data_of(order, io.order_id), io.csv_ok)]]

\* send_to_pos once validate_order has returned v
send_validated(v, order, fs, io) ==
    IF ~v[1]
    THEN [resp |-> [status |-> "error", message |-> v[2]], fs |-> fs]
    ELSE [resp |-> [status |-> "success", order_id |-> io.order_id],
          fs |-> [orders_file |-> save_order_to_file(fs.orders_file,
                                      order_data_of(order, io.order_id), io.file_ok),
                  orders_csv |-> save_order_to_csv(fs.orders_csv,
                                      order_data_of(order, io.order_id), io.csv_ok)]]

\* send_to_pos on the files fs = [orders_file, orders_csv]; io gives the
\* number random.randint draws and whether each file can be written.
\* Returns [resp, fs].
send_to_pos(order, fs, io) == send_validated(validate_order(order), order, fs, io)


\* ------------------------------------------------------------------------
\* OrderState
\* ------------------------------------------------------------------------
GREETING == "greeting"
ASK_ITEM == "ask_item"
ASK_FLAVOR == "ask_flavor"
ASK_SIZE == "ask_size"
ASK_MORE == "ask_more"
COLLECT_ADDRESS == "collect_address"
COLLECT_PHONE == "collect_phone"
CONFIRM_ORDER == "confirm_order"
COMPLETED == "completed"

\* ------------------------------------------------------------------------
\* OrderSystem.  A session S is the record of the object's attributes, the
\* two order files, and what the turn in progress has produced so far:
\* spoken (the templates of the messages passed to speak), pos_resp (the
\* answer of the last send_to_pos) and result: "CONTINUE" or "EXIT" as
\* process_input returns them, "RAISED" once an exception has escaped
\* (KeyError), "SYSEXIT" once sys.exit(0) was called.
\* ------------------------------------------------------------------------
speak(S, text) == [S EXCEPT !.spoken = Append(@, text)]
Raise(S) == [S EXCEPT !.result = "RAISED"]

add_user_message(S) ==
    [S EXCEPT !.conversation_history = Append(@, "user")]

add_assistant_message(S) ==
    [S EXCEPT !.conversation_history = Append(@, "assistant")]

\* f"{item['quantity']} {item['size']} {item['name']}" for every item of
\* the cart raises KeyError unless every item has the three keys
CartPrintable(S) ==
    \A i \in 1..Len(S.current_order) : ItemPrintable(S.current_order[i])

\* An LLM reply, as the regular expressions and decoders of
\* parse_and_execute_tools see it.  failed: "no", or how call_llm failed
\* ("empty", "error"), the reply then being its fallback sentence.  add_item,
\* set_details: [kind |-> "absent"] (the pattern does not match),
\* [kind |-> "malformed"] (json.loads and ast.literal_eval both raise, or the
\* payload is no dict) or [kind |-> "dict", d |-> the decoded dict].
\* save_order: whether the reply contains "[SAVE_ORDER]".
Absent == [kind |-> "absent"]
Malformed == [kind |-> "malformed"]
Payload(d) == [kind |-> "dict", d |-> d]

\* the clean-up of the quantity of an ADD_ITEM payload
clean_quantity(item_data) ==
    LET q == DictGet(item_data, "quantity")
    IN IF q = EllipsisV \/ PyStr(q) = <<".",".",".">>
       THEN DictSet(item_data, "quantity", IntV(1))
       ELSE item_data

\* field_unresolved without its test for "..."
field_unresolved_no_ellipsis(val) ==
    val = EllipsisV \/ val = NoneV \/ val = StrV(<< >>)

\* whether a name or size of an ADD_ITEM payload is unresolved
field_unresolved(val) ==
    \/ val = EllipsisV
    \/ val = NoneV
    \/ Contains(PyStr(val), <<".",".",".">>)
    \/ val = StrV(<< >>)

\* the clean-up of one field (name or size): [item_data, is_incomplete]
clean_field(item_data, field) ==
    IF field_unresolved(DictGet(item_data, field))
    THEN [item_data |-> DictSet(item_data, field, NoneV), is_incomplete |-> TRUE]
    ELSE [item_data |-> item_data, is_incomplete |-> FALSE]

\* store_item leaving the phase as it is
store_item_keep_phase(S, item_data, is_incomplete) ==
    IF is_incomplete
    THEN IF Truthy(DictGet(item_data, "name"))
         THEN [S EXCEPT !.temp_item = item_data]
         ELSE S
    ELSE [S EXCEPT !.current_order = Append(@, item_data)]

\* where a cleaned ADD_ITEM payload goes: the cart, temp_item, or nowhere
store_item(S, item_data, is_incomplete) ==
    IF is_incomplete
    THEN IF Truthy(DictGet(item_data, "name"))
         THEN [S EXCEPT !.temp_item = item_data, !.state = ASK_SIZE]
         ELSE S
    ELSE [S EXCEPT !.current_order = Append(@, item_data)]

\* the clean-up of size, after that of name gave n
clean_size(S, n, z) == store_item(S, z.item_data, n.is_incomplete \/ z.is_incomplete)
clean_name(S, n) == clean_size(S, n, clean_field(n.item_data, "size"))

\* execute_add_item letting the exception of a malformed payload escape
execute_add_item_raising(S, add_item) ==
    IF add_item.kind = "malformed" THEN Raise(S)
    ELSE IF add_item.kind # "dict" THEN S
    ELSE clean_name(S, clean_field(clean_quantity(add_item.d), "name"))

\* the ADD_ITEM part of parse_and_execute_tools
execute_add_item(S, add_item) ==
    IF add_item.kind # "dict" THEN S
    ELSE clean_name(S, clean_field(clean_quantity(add_item.d), "name"))

\* the SET_DETAILS part of parse_and_execute_tools
execute_set_details(S, set_details) ==
    IF set_details.kind # "dict" THEN S
    ELSE LET a == IF "address" \in DOMAIN set_details.d
                  THEN [S EXCEPT !.customer_address = set_details.d["address"]]
                  ELSE S
         IN IF "phone" \in DOMAIN set_details.d
            THEN [a EXCEPT !.customer_phone = set_details.d["phone"]]
            ELSE a

\* the order a handler passes to send_to_pos
OrderOf(S) ==
    [items |-> S.current_order, address |-> S.customer_address,
     phone |-> S.customer_phone]

FilesOf(S) == [orders_file |-> S.orders_file, orders_csv |-> S.orders_csv]

\* S once send_to_pos has returned r = [resp, fs]
with_pos_resp(S, r) ==
    [S EXCEPT !.pos_resp = r.resp,
              !.orders_file = r.fs.orders_file,
              !.orders_csv = r.fs.orders_csv]

\* S after send_to_pos was called on its order
call_send_to_pos(S, io) == with_pos_resp(S, send_to_pos(OrderOf(S), FilesOf(S), io))

\* what parse_and_execute_tools does with the answer of send_to_pos
saved_or_refused(P) ==
    IF P.pos_resp.status = "success"
    THEN [speak(P, "Order {order_id} placed successfully!") EXCEPT !.result = "SYSEXIT"]
    ELSE speak(P, "I cannot save the order yet. {message}")

\* execute_save_order without its test of the cart, address and phone
execute_save_order_unguarded(S, save_order, io) ==
    IF ~save_order THEN S
    ELSE saved_or_refused(call_send_to_pos(S, io))

\* the SAVE_ORDER part of parse_and_execute_tools
execute_save_order(S, save_order, io) ==
    IF ~save_order THEN S
    ELSE IF Len(S.current_order) > 0 /\ Truthy(S.customer_address) /\ Truthy(S.customer_phone)
    THEN saved_or_refused(call_send_to_pos(S, io))
    ELSE S

parse_and_execute_tools(S, response, io) ==
    execute_save_order(
        execute_set_details(execute_add_item(S, response.add_item), response.set_details),
        response.save_order, io)

\* what call_llm returns: the fallback sentence when it failed
ResponseText(response) ==
    CASE response.failed = "empty" -> "Sorry, could you repeat that?"
      [] response.failed = "error" -> "I didn't catch that. Could you say it again?"
      [] OTHER -> "{cleaned_response}"

\* the end of query_llm and the speak(response) of the calling handler,
\* unless parse_and_execute_tools has called sys.exit
answer(P, response) ==
    IF P.result = "SYSEXIT" THEN P
    ELSE speak(add_assistant_message(P), ResponseText(response))

\* query_llm followed by the speak(response) of the calling handler
query_llm(S, response, io) ==
    IF ~CartPrintable(S) THEN Raise(S)
    ELSE answer(parse_and_execute_tools(add_user_message(S), response, io), response)

get_order_summary_text(S) ==
    IF Len(S.current_order) = 0 THEN "You haven't ordered anything yet."
    ELSE "You have ordered: {summary}."

inquiry_keywords ==
    <<<<"w","h","a","t"," ","i"," ","o","r","d","e","r","e","d">>, <<"m","y"," ","o","r","d","e","r">>, <<"c","a","r","t">>, <<"b","a","s","k","e","t">>, <<"w","h","a","t"," ","d","i","d"," ","i"," ","o","r","d","e","r">>,
      <<"w","h","a","t"," ","h","a","v","e"," ","i"," ","o","r","d","e","r","e","d">>, <<"c","h","e","c","k"," ","o","r","d","e","r">>>>

\* the test of check_order_inquiry
is_order_inquiry(text_lower) == AnyContained(text_lower, inquiry_keywords)

\* what check_order_inquiry does when the test holds
check_order_inquiry(S) ==
    IF ~CartPrintable(S) THEN Raise(S) ELSE speak(S, get_order_summary_text(S))

menu_keywords ==
    <<<<"l","i","s","t">>, <<"m","e","n","u">>, <<"h","a","v","e">>, <<"a","v","a","i","l","a","b","l","e">>, <<"o","p","t","i","o","n","s">>, <<"f","l","a","v","o","r","s">>,
      <<"f","l","a","v","o","u","r","s">>, <<"a","l","l">>, <<"t","e","l","l"," ","m","e">>>>

is_menu_inquiry(text) ==
    LET text_lower == Lower(text)
    IN \/ \E i \in 1..Len(menu_keywords) : SearchWord(text_lower, menu_keywords[i])
       \/ /\ SearchWord(text_lower, <<"w","h","a","t">>)
          /\ \E k \in {<<"m","e","n","u">>, <<"h","a","v","e">>, <<"a","v","a","i","l","a","b","l","e">>} : SearchWord(text_lower, k)

\* ------------------------------------------------------------------------
\* The tests of the handlers on an utterance
\* ------------------------------------------------------------------------
\* phone_match searching user_text as it is, spaces and dashes kept
phone_match_raw(user_text) ==
    LET starts == {i \in 1..Len(user_text) :
                     IsDigit(user_text[i]) /\ DigitRunEnd(user_text, i) >= i + 8}
    IN IF starts = {} THEN << >>
       ELSE LET i == CHOOSE a \in starts : \A b \in starts : a <= b
                j == DigitRunEnd(user_text, i)
            IN <<SubSeq(user_text, i, IF j > i + 14 THEN i + 14 ELSE j)>>

\* the second argument of handle_collect_phone with spaces and dashes
\* removed, and the match of \d{9,15} in it as <<digits>>, or << >>
phone_match(user_text) ==
    LET text == RemoveChar(RemoveChar(user_text, " "), "-")
        starts == {i \in 1..Len(text) : IsDigit(text[i]) /\ DigitRunEnd(text, i) >= i + 8}
    IN IF starts = {} THEN << >>
       ELSE LET i == CHOOSE a \in starts : \A b \in starts : a <= b
                j == DigitRunEnd(text, i)
            IN <<SubSeq(text, i, IF j > i + 14 THEN i + 14 ELSE j)>>

done_words ==
    <<<<"n","o">>, <<"n","o","p","e">>, <<"t","h","a","t","'","s"," ","a","l","l">>, <<"t","h","a","t","s"," ","a","l","l">>, <<"d","o","n","e">>, <<"f","i","n","i","s","h">>,
      <<"n","o","t","h","i","n","g">>, <<"b","a","s">>, <<"e","n","o","u","g","h">>>>

is_done(text_lower) == AnyContained(text_lower, done_words)

is_affirmative(text_lower) ==
    Contains(text_lower, <<"y","e","s">>) \/ Contains(text_lower, <<"c","o","r","r","e","c","t">>) \/ Contains(text_lower, <<"c","o","n","f","i","r","m">>)

exit_commands == <<<<"e","x","i","t">>, <<"q","u","i","t">>, <<"b","y","e">>, <<"c","a","n","c","e","l">>>>

\* text_lower in ["exit", "quit", "bye", "cancel"]
is_exit_command(user_text) ==
    \E i \in 1..Len(exit_commands) : Lower(user_text) = exit_commands[i]


\* ------------------------------------------------------------------------
\* Inputs of a turn
\* ------------------------------------------------------------------------
\* what the customer may say (input().strip(), never empty in main)
Utterances ==
    {<<"c","a","n","c","e","l">>, <<"B","y","e">>, <<"m","y"," ","o","r","d","e","r">>, <<"t","w","o"," ","c","h","i","c","k","e","n"," ","s","u","r","p","r","i","s","e"," ","p","i","z","z","a","s">>, <<"a"," ","p","i","z","z","a">>,
     <<"l","a","r","g","e"," ","p","l","e","a","s","e">>, <<"t","h","a","t","'","s"," ","a","l","l">>, <<"1","2"," ","m","a","i","n"," ","s","t","r","e","e","t">>,
     <<"m","y"," ","n","u","m","b","e","r"," ","i","s"," ","0","3","0","0"," ","1","2","3","4","5","6","7">>, <<"y","e","s">>}

\* ADD_ITEM payloads: complete, complete without quantity, no size (with
\* and without quantity), no name
ItemFull == [name |-> StrV(<<"F","a","j","i","t","a">>), size |-> StrV(<<"L","a","r","g","e">>), quantity |-> IntV(2)]
ItemNoQuantity == [name |-> StrV(<<"F","a","j","i","t","a">>), size |-> StrV(<<"L","a","r","g","e">>)]
ItemNoSize == [name |-> StrV(<<"F","a","j","i","t","a">>), size |-> StrV(<<".",".",".">>), quantity |-> StrV(<<".",".",".">>)]
ItemNameOnly == [name |-> StrV(<<"F","a","j","i","t","a">>)]
ItemNoName == [name |-> StrV(<<".",".",".">>), size |-> StrV(<<"L","a","r","g","e">>), quantity |-> EllipsisV]

\* SET_DETAILS payloads: both valid, a valid address alone, both set but
\* invalid, a null phone
DetailsValid == [address |-> StrV(<<"1","2"," ","m","a","i","n"," ","s","t","r","e","e","t">>), phone |-> StrV(<<"0","3","0","0"," ","1","2","3","4","5","6","7">>)]
DetailsAddress == [address |-> StrV(<<"1","2"," ","m","a","i","n"," ","s","t","r","e","e","t">>)]
DetailsInvalid == [address |-> StrV(<<".",".",".">>), phone |-> StrV(<<"5","5","5">>)]
DetailsNoPhone == [phone |-> NoneV]

AddItems ==
    {Absent, Malformed, Payload(ItemFull), Payload(ItemNoQuantity), Payload(ItemNoSize),
     Payload(ItemNameOnly), Payload(ItemNoName)}

SetDetails ==
    {Absent, Malformed, Payload(DetailsValid), Payload(DetailsAddress),
     Payload(DetailsInvalid), Payload(DetailsNoPhone)}

Reply(add_item, set_details, save_order) ==
    [failed |-> "no", add_item |-> add_item, set_details |-> set_details,
     save_order |-> save_order]

\* what call_llm may return: a reply with one directive, a reply with
\* several, or its fallback when it failed
Responses ==
    {Reply(a, Absent, FALSE) : a \in AddItems}
    \cup {Reply(Absent, d, FALSE) : d \in SetDetails}
    \cup {Reply(Absent, Absent, TRUE),
          Reply(Absent, Payload(DetailsValid), TRUE),
          Reply(Absent, Payload(DetailsInvalid), TRUE),
          Reply(Payload(ItemFull), Payload(DetailsValid), TRUE),
          Reply(Malformed, Payload(DetailsValid), FALSE),
          Reply(Payload(ItemFull), Malformed, FALSE)}
    \cup {[failed |-> f, add_item |-> Absent, set_details |-> Absent, save_order |-> FALSE] :
            f \in {"empty", "error"}}

\* the strs handle_collect_phone can be given: an utterance, or the stored
\* phone (from SET_DETAILS or from an earlier match)
DetailPhones ==
    {p.d["phone"].s : p \in {x \in SetDetails : x.kind = "dict" /\ "phone" \in DOMAIN x.d
                                                /\ IsStr(x.d["phone"])}}
Texts ==
    LET given == Utterances \cup DetailPhones
    IN given \cup {phone_match(u)[1] : u \in {x \in given : phone_match(x) # << >>}}

\* what the extractors and keyword tests of the handlers give on each utterance
\* (@@ makes TLC tabulate the function once instead of on every use)
Facts ==
    << >> @@ [u \in Utterances |->
        [is_exit_command |-> is_exit_command(u),
         is_order_inquiry |-> is_order_inquiry(Lower(u)),
         is_menu_inquiry |-> is_menu_inquiry(u),
         wants_all |-> SearchWord(Lower(u), <<"a","l","l">>) \/ SearchWord(Lower(u), <<"t","e","l","l"," ","m","e"," ","a","l","l">>),
         is_pizza_request |-> is_pizza_request(u),
         extract_quantity |-> extract_quantity(u),
         detect_pizza_flavor |-> detect_pizza_flavor(u),
         detect_pizza_size |-> detect_pizza_size(u),
         is_done |-> is_done(Lower(u)),
         is_affirmative |-> is_affirmative(Lower(u))]]

\* phone_match on each str handle_collect_phone can be given
PhoneMatches == << >> @@ [u \in Texts |-> phone_match(u)]

\* ------------------------------------------------------------------------
\* The handlers.  F is Facts[user_text]: what the extractors and keyword
\* tests the handler applies to user_text give.
\* ------------------------------------------------------------------------
\* start_pizza with the quantity 1 instead of the extracted one
start_pizza_one(S, F, size_prompt, flavor_prompt) ==
    IF F.detect_pizza_flavor # << >>
    THEN speak([S EXCEPT !.temp_item = [quantity |-> IntV(1),
                                        category |-> StrV(<<"P","i","z","z","a">>),
                                        name |-> StrV(Title(F.detect_pizza_flavor[1]))],
                         !.state = ASK_SIZE],
               size_prompt)
    ELSE speak([S EXCEPT !.temp_item = [quantity |-> IntV(1),
                                        category |-> StrV(<<"P","i","z","z","a">>)],
                         !.state = ASK_FLAVOR],
               flavor_prompt)

\* the pizza branch shared by handle_greeting, handle_ask_item and
\* handle_ask_more: a new temp_item, then ASK_SIZE or ASK_FLAVOR
start_pizza(S, F, size_prompt, flavor_prompt) ==
    IF F.detect_pizza_flavor # << >>
    THEN speak([S EXCEPT !.temp_item = [quantity |-> IntV(F.extract_quantity),
                                        category |-> StrV(<<"P","i","z","z","a">>),
                                        name |-> StrV(Title(F.detect_pizza_flavor[1]))],
                         !.state = ASK_SIZE],
               size_prompt)
    ELSE speak([S EXCEPT !.temp_item = [quantity |-> IntV(F.extract_quantity),
                                        category |-> StrV(<<"P","i","z","z","a">>)],
                         !.state = ASK_FLAVOR],
               flavor_prompt)

\* whether handle_greeting (and handle_ask_item) hands the turn to the LLM
greeting_uses_llm(F) ==
    ~F.is_order_inquiry /\ ~F.is_menu_inquiry /\ ~F.is_pizza_request

handle_greeting(S, F, response, io) ==
    IF F.is_order_inquiry THEN check_order_inquiry(S)
    ELSE IF F.is_menu_inquiry
    THEN [speak(S, IF F.wants_all
                   THEN "We have {flavors_str}. What would you like to order?"
                   ELSE "We have pizzas like {flavors_str}, and more. What would you like?")
          EXCEPT !.state = ASK_ITEM]
    ELSE IF F.is_pizza_request
    THEN start_pizza(S, F,
                     "Great! {qty} {flavor} pizza. Which size? Small, Regular, Medium, Large, or XXL?",
                     "Sure! {qty} pizza. Which flavor? Chicken Surprise, Jamaican BBQ, Chicago Bold Fold, or any other?")
    ELSE query_llm(S, response, io)

handle_ask_item(S, F, response, io) ==
    IF F.is_order_inquiry THEN check_order_inquiry(S)
    ELSE IF F.is_menu_inquiry
    THEN speak(S, IF F.wants_all
                  THEN "We have {flavors_str}. What would you like?"
                  ELSE "We have {flavors_str}, and more. What would you like?")
    ELSE IF F.is_pizza_request
    THEN start_pizza(S, F, "{qty} {flavor} pizza. Which size?",
                     "{qty} pizza. Which flavor would you like?")
    ELSE query_llm(S, response, io)

ask_flavor_uses_llm(F) ==
    ~F.is_order_inquiry /\ ~F.is_menu_inquiry /\ F.detect_pizza_flavor = << >>

handle_ask_flavor(S, F, response, io) ==
    IF F.is_order_inquiry THEN check_order_inquiry(S)
    ELSE IF F.is_menu_inquiry
    THEN speak(S, "We have {flavors_str}. Which one would you like?")
    ELSE IF F.detect_pizza_flavor # << >>
    THEN speak([S EXCEPT !.temp_item = DictSet(@, "name", StrV(Title(F.detect_pizza_flavor[1]))),
                         !.state = ASK_SIZE],
               "{flavor} pizza! Which size? Small, Regular, Medium, Large, or XXL?")
    ELSE query_llm(S, response, io)

ask_size_uses_llm(F) == F.detect_pizza_size = << >>

\* item_added without self.temp_item = {}
item_added_keep_pending(A) ==
    IF {"quantity", "name"} \subseteq DOMAIN A.temp_item
    THEN [speak(A, "Perfect! {qty} {size_str} {name} added. Anything else?")
          EXCEPT !.state = ASK_MORE]
    ELSE Raise(A)

\* handle_ask_size once temp_item["size"] is set and the copy of temp_item
\* is appended (session A): reading temp_item["quantity"] and
\* temp_item["name"] raises KeyError when the key is missing
item_added(A) ==
    IF {"quantity", "name"} \subseteq DOMAIN A.temp_item
    THEN [speak(A, "Perfect! {qty} {size_str} {name} added. Anything else?")
          EXCEPT !.temp_item = EmptyDict, !.state = ASK_MORE]
    ELSE Raise(A)

\* append_temp_item without the append
append_nothing(T) == T

\* self.temp_item["size"] = size.title(); self.current_order.append(self.temp_item.copy())
append_temp_item(T) == [T EXCEPT !.current_order = Append(@, T.temp_item)]

handle_ask_size(S, F, response, io) ==
    IF F.detect_pizza_size # << >>
    THEN item_added(append_temp_item(
             [S EXCEPT !.temp_item = DictSet(@, "size", StrV(Title(F.detect_pizza_size[1])))]))
    ELSE query_llm(S, response, io)

\* handle_collect_phone once phone_match has given the summary's session A
confirm_summary(A) ==
    IF CartPrintable(A)
    THEN speak(A, "Let me confirm. {summary}. Delivering to {customer_address}. Phone {customer_phone}. Is this correct?")
    ELSE Raise(A)

\* collect_phone_match going to CONFIRM_ORDER without a match
collect_phone_unmatched(S, m) ==
    IF m # << >>
    THEN confirm_summary([S EXCEPT !.customer_phone = StrV(m[1]), !.state = CONFIRM_ORDER])
    ELSE confirm_summary([S EXCEPT !.state = CONFIRM_ORDER])

\* handle_collect_phone for the result m of the search
collect_phone_match(S, m) ==
    IF m # << >>
    THEN confirm_summary([S EXCEPT !.customer_phone = StrV(m[1]), !.state = CONFIRM_ORDER])
    ELSE speak(S, "I didn't catch the phone number. Please say it again?")

handle_collect_phone(S, user_text) == collect_phone_match(S, PhoneMatches[user_text])

\* handle_ask_more testing the phone before the address
handle_ask_more_phone_first(S, F, response, io) ==
    IF F.is_done
    THEN IF ~is_valid_phone(S.customer_phone)
         THEN speak([S EXCEPT !.state = COLLECT_PHONE],
                    "Got the address. And your phone number please?")
         ELSE IF ~is_valid_address(S.customer_address)
         THEN speak([S EXCEPT !.state = COLLECT_ADDRESS],
                    "Great! Now, please provide your full delivery address.")
         ELSE handle_collect_phone([S EXCEPT !.state = CONFIRM_ORDER], S.customer_phone.s)
    ELSE IF F.is_pizza_request
    THEN start_pizza(S, F, "{qty} {flavor} pizza. Which size?", "{qty} pizza. Which flavor?")
    ELSE query_llm(S, response, io)

ask_more_uses_llm(F) == ~F.is_done /\ ~F.is_pizza_request

\* (query_llm always returns save_trigger = False, so the save branch of the
\* source after it is never taken)
handle_ask_more(S, F, response, io) ==
    IF F.is_done
    THEN IF ~is_valid_address(S.customer_address)
         THEN speak([S EXCEPT !.state = COLLECT_ADDRESS],
                    "Great! Now, please provide your full delivery address.")
         ELSE IF ~is_valid_phone(S.customer_phone)
         THEN speak([S EXCEPT !.state = COLLECT_PHONE],
                    "Got the address. And your phone number please?")
         ELSE handle_collect_phone([S EXCEPT !.state = CONFIRM_ORDER], S.customer_phone.s)
    ELSE IF F.is_pizza_request
    THEN start_pizza(S, F, "{qty} {flavor} pizza. Which size?", "{qty} pizza. Which flavor?")
    ELSE query_llm(S, response, io)

handle_collect_address(S, user_text) ==
    speak([S EXCEPT !.customer_address = StrV(user_text), !.state = COLLECT_PHONE],
          "Got it! And your phone number please?")

\* redirect staying in the phase whatever the message
redirect_none(state_now, message) == state_now

\* the phase handle_confirm_order goes to on the message of a failed validation
redirect(state_now, message) ==
    IF Contains(message, <<"a","d","d","r","e","s","s">>) THEN COLLECT_ADDRESS
    ELSE IF Contains(message, <<"p","h","o","n","e">>) THEN COLLECT_PHONE
    ELSE state_now

\* confirmed_or_redirected going on with the session after a success
confirmed_and_continued(P) ==
    IF P.pos_resp.status = "success"
    THEN speak(P, "Perfect! Your order {order_id} is confirmed. Estimated delivery in 30-45 minutes. Thank you!")
    ELSE [speak(P, "I can't confirm yet. {message}")
          EXCEPT !.state = redirect(@, P.pos_resp.message)]

\* handle_confirm_order once send_to_pos has answered (session P)
confirmed_or_redirected(P) ==
    IF P.pos_resp.status = "success"
    THEN [speak(P, "Perfect! Your order {order_id} is confirmed. Estimated delivery in 30-45 minutes. Thank you!")
          EXCEPT !.result = "EXIT"]
    ELSE [speak(P, "I can't confirm yet. {message}")
          EXCEPT !.state = redirect(@, P.pos_resp.message)]

handle_confirm_order(S, F, io) ==
    IF F.is_affirmative
    THEN confirmed_or_redirected(call_send_to_pos(S, io))
    ELSE speak([S EXCEPT !.state = ASK_MORE], "No problem. What would you like to change?")

\* whether process_input hands an utterance with the facts F to the LLM
uses_llm(phase, F) ==
    /\ ~F.is_exit_command
    /\ CASE phase \in {GREETING, ASK_ITEM} -> greeting_uses_llm(F)
         [] phase = ASK_FLAVOR -> ask_flavor_uses_llm(F)
         [] phase = ASK_SIZE -> ask_size_uses_llm(F)
         [] phase = ASK_MORE -> ask_more_uses_llm(F)
         [] OTHER -> FALSE

\* the state machine of process_input
handle_phase(S, user_text, F, response, io) ==
    CASE S.state = GREETING -> handle_greeting(S, F, response, io)
      [] S.state = ASK_ITEM -> handle_ask_item(S, F, response, io)
      [] S.state = ASK_FLAVOR -> handle_ask_flavor(S, F, response, io)
      [] S.state = ASK_SIZE -> handle_ask_size(S, F, response, io)
      [] S.state = ASK_MORE -> handle_ask_more(S, F, response, io)
      [] S.state = COLLECT_ADDRESS -> handle_collect_address(S, user_text)
      [] S.state = COLLECT_PHONE -> handle_collect_phone(S, user_text)
      [] S.state = CONFIRM_ORDER -> handle_confirm_order(S, F, io)
      [] OTHER -> S

\* dispatch without the exit commands
dispatch_without_exit(S, user_text, F, response, io) ==
    handle_phase(S, user_text, F, response, io)

\* process_input on user_text, whose facts are F
dispatch(S, user_text, F, response, io) ==
    IF F.is_exit_command
    THEN [speak(S, "Thanks for calling! Have a great day!") EXCEPT !.result = "EXIT"]
    ELSE handle_phase(S, user_text, F, response, io)

process_input(S, user_text, response, io) ==
    dispatch(S, user_text, Facts[user_text], response, io)

\* ------------------------------------------------------------------------
\* Inputs
\* ------------------------------------------------------------------------
\* the longest cart and the most LLM calls of a session that are explored
MaxCart == 1
MaxLLMCalls == 1

\* no LLM call in this turn
NoResponse ==
    [failed |-> "no call", add_item |-> Absent, set_details |-> Absent, save_order |-> FALSE]

\* f"ORD{random.randint(1000,9999)}", for the least and the greatest draw
OrderIds == {<<"O","R","D">> \o IntToStr(n) : n \in {1000, 9999}}

IOs == [order_id : OrderIds, file_ok : BOOLEAN, csv_ok : BOOLEAN]
NoIO == [order_id |-> <<"O","R","D","1","0","0","0">>, file_ok |-> TRUE, csv_ok |-> TRUE]

\* ------------------------------------------------------------------------
\* The state: the attributes of the OrderSystem, orders.json and orders.csv,
\* what the last turn said and got from the POS, and what it returned.
\* qty_text and qty are the argument and the result of a call of
\* extract_quantity on its own (qty is None until it has returned).
\* commits is where each of several running programs stands in its
\* send_to_pos, when they commit to the same orders.json and orders.csv.
\* ------------------------------------------------------------------------
VARIABLES state, current_order, temp_item, customer_address, customer_phone,
          conversation_history, orders_file, orders_csv, spoken, pos_resp,
          result, qty_text, qty, commits

vars == <<state, current_order, temp_item, customer_address, customer_phone,
          conversation_history, orders_file, orders_csv, spoken, pos_resp,
          result, qty_text, qty, commits>>

\* OrderSystem.__init__, and the greeting of main
Init ==
    /\ state = GREETING
    /\ current_order = << >>
    /\ temp_item = EmptyDict
    /\ customer_address = StrV(<< >>)
    /\ customer_phone = StrV(<< >>)
    /\ conversation_history = <<"system">>
    /\ orders_file = << >>
    /\ orders_csv = << >>
    /\ spoken = <<"Hi! Welcome to our restaurant. What can I get you today?">>
    /\ pos_resp = NoPosResp
    /\ result = "CONTINUE"
    /\ qty_text = << >>
    /\ qty = NoneV
    /\ commits = << >>

\* the session at the start of a turn
Session ==
    [state |-> state, current_order |-> current_order, temp_item |-> temp_item,
     customer_address |-> customer_address, customer_phone |-> customer_phone,
     conversation_history |-> conversation_history, orders_file |-> orders_file,
     orders_csv |-> orders_csv, spoken |-> << >>, pos_resp |-> NoPosResp,
     result |-> "CONTINUE"]

\* the replies the turn on u can consume, and the draws of its commit
ResponsesFor(u) == IF uses_llm(state, Facts[u]) THEN Responses ELSE {NoResponse}
IOsFor(u, r) ==
    IF r.save_order \/ (state = CONFIRM_ORDER /\ Facts[u].is_affirmative)
    THEN IOs ELSE {NoIO}

\* the calls of query_llm so far: each adds one user message
LLMCalls == Cardinality({i \in 1..Len(conversation_history) : conversation_history[i] = "user"})

\* the variables take the values of the session T
Becomes(T) ==
    /\ state' = T.state
    /\ current_order' = T.current_order
    /\ temp_item' = T.temp_item
    /\ customer_address' = T.customer_address
    /\ customer_phone' = T.customer_phone
    /\ conversation_history' = T.conversation_history
    /\ orders_file' = T.orders_file
    /\ orders_csv' = T.orders_csv
    /\ spoken' = T.spoken
    /\ pos_resp' = T.pos_resp
    /\ result' = T.result
    /\ UNCHANGED <<qty_text, qty, commits>>

\* one pass of the loop of main: process_input on the utterance u.  The
\* turn is explored while the bounds allow its LLM call and its cart.
Turn(u, r, io) ==
    /\ r # NoResponse => LLMCalls < MaxLLMCalls
    /\ \E T \in {process_input(Session, u, r, io)} :
          Len(T.current_order) <= MaxCart /\ Becomes(T)

\* main reads an utterance that is no exit command while the last turn
\* returned CONTINUE, and process_input dispatches it on the phase
UserTurn ==
    /\ result = "CONTINUE"
    /\ \E u \in Utterances :
          /\ ~Facts[u].is_exit_command
          /\ \E r \in ResponsesFor(u) : \E io \in IOsFor(u, r) : Turn(u, r, io)

\* the utterance is an exit command, in whatever phase
ExitCommand ==
    /\ result = "CONTINUE"
    /\ \E u \in Utterances : Facts[u].is_exit_command /\ Turn(u, NoResponse, NoIO)

Greeting == state = GREETING /\ UserTurn
AskItem == state = ASK_ITEM /\ UserTurn
AskFlavor == state = ASK_FLAVOR /\ UserTurn
AskSize == state = ASK_SIZE /\ UserTurn
AskMore == state = ASK_MORE /\ UserTurn
CollectAddress == state = COLLECT_ADDRESS /\ UserTurn
CollectPhone == state = COLLECT_PHONE /\ UserTurn
ConfirmOrder == state = CONFIRM_ORDER /\ UserTurn

Next ==
    \/ ExitCommand
    \/ Greeting
    \/ AskItem
    \/ AskFlavor
    \/ AskSize
    \/ AskMore
    \/ CollectAddress
    \/ CollectPhone
    \/ ConfirmOrder

Spec == Init /\ [][Next]_vars

\* ------------------------------------------------------------------------
\* send_to_pos and validate_order on any order: the cart, the address and
\* the phone are drawn from bounded sets, and send_to_pos is called once
\* ------------------------------------------------------------------------
\* the longest cart drawn
MaxItems == 2

\* items with and without a category that takes a size, with a name or a
\* size that is resolved, missing, None, empty or the placeholder
ValidationItems ==
    {[category |-> StrV(<<"P","i","z","z","a">>), name |-> StrV(<<"C","h","i","c","k","e","n"," ","S","u","r","p","r","i","s","e">>),
      size |-> StrV(<<"L","a","r","g","e">>), quantity |-> IntV(2)],
     [category |-> StrV(<<"P","i","z","z","a">>), name |-> StrV(<<"C","h","i","c","k","e","n"," ","S","u","r","p","r","i","s","e">>), quantity |-> IntV(1)],
     [category |-> StrV(<<"D","r","i","n","k","s">>), name |-> StrV(<<"C","o","k","e">>), quantity |-> IntV(1)],
     [category |-> StrV(<<"D","r","i","n","k","s">>), name |-> StrV(<<"C","o","k","e">>), size |-> NoneV, quantity |-> IntV(1)],
     [name |-> StrV(<<".",".",".">>), size |-> StrV(<<"L","a","r","g","e">>)],
     [name |-> StrV(<< >>), size |-> StrV(<<".",".",".">>)]}

RECURSIVE CartsOf(_)
CartsOf(n) ==
    IF n = 0 THEN {<< >>}
    ELSE CartsOf(n - 1)
         \cup {Append(c, i) : c \in {x \in CartsOf(n - 1) : Len(x) = n - 1}, i \in ValidationItems}

ValidationCarts == CartsOf(MaxItems)
ValidationAddresses == {StrV(<< >>), StrV(<<"y","e","s">>), StrV(<<"1","2"," ","m","a","i","n"," ","s","t","r","e","e","t">>), StrV(<<"1","2"," ",".",".","."," ","s","t","r","e","e","t">>)}
ValidationPhones == {NoneV, StrV(<< >>), StrV(<<"5","5","5">>), StrV(<<"n","o"," ","p","h","o","n","e"," ","y","e","t">>), StrV(<<"0","3","0","0","1","2","3","4","5","6","7">>)}

InitValidate ==
    /\ state = CONFIRM_ORDER
    /\ current_order \in ValidationCarts
    /\ temp_item = EmptyDict
    /\ customer_address \in ValidationAddresses
    /\ customer_phone \in ValidationPhones
    /\ conversation_history = <<"system">>
    /\ orders_file = << >>
    /\ orders_csv = << >>
    /\ spoken = << >>
    /\ pos_resp = NoPosResp
    /\ result = "CONTINUE"
    /\ qty_text = << >>
    /\ qty = NoneV
    /\ commits = << >>

\* send_to_pos on the order of the session
SendToPos ==
    /\ pos_resp = NoPosResp
    /\ \E io \in IOs : \E T \in {call_send_to_pos(Session, io)} : Becomes(T)

SpecValidate == InitValidate /\ [][SendToPos]_vars

\* ------------------------------------------------------------------------
\* extract_quantity on any text: the text is drawn from the texts of at
\* most MaxWords words, and extract_quantity is called once
\* ------------------------------------------------------------------------
\* the most words of a text drawn
MaxWords == 2

\* digit tokens (0 among them), number words in either case and inside
\* another word, a digit that is no token of its own, and a plain word
QuantityWords ==
    {<<"0">>, <<"3">>, <<"1","2">>, <<"t","w","o">>, <<"T","e","n">>, <<"s","o","m","e","o","n","e">>, <<"x","2">>, <<"p","i","z","z","a","s">>}

RECURSIVE TextsOf(_)
TextsOf(n) ==
    IF n = 0 THEN {<< >>}
    ELSE TextsOf(n - 1)
         \cup {IF t = << >> THEN w ELSE t \o <<" ">> \o w :
                  t \in TextsOf(n - 1), w \in QuantityWords}

QuantityTexts == TextsOf(MaxWords)

InitQuantity ==
    /\ state = GREETING
    /\ current_order = << >>
    /\ temp_item = EmptyDict
    /\ customer_address = StrV(<< >>)
    /\ customer_phone = StrV(<< >>)
    /\ conversation_history = <<"system">>
    /\ orders_file = << >>
    /\ orders_csv = << >>
    /\ spoken = << >>
    /\ pos_resp = NoPosResp
    /\ result = "CONTINUE"
    /\ qty_text \in QuantityTexts
    /\ qty = NoneV
    /\ commits = << >>

\* qty = extract_quantity(user_text)
ExtractQuantity ==
    /\ qty = NoneV
    /\ qty' = IntV(extract_quantity(qty_text))
    /\ UNCHANGED <<state, current_order, temp_item, customer_address, customer_phone,
                   conversation_history, orders_file, orders_csv, spoken, pos_resp,
                   result, qty_text, commits>>

SpecQuantity == InitQuantity /\ [][ExtractQuantity]_vars

\* ------------------------------------------------------------------------
\* Several programs (sessions) at their commit, on the same orders.json and
\* orders.csv.  Each runs send_to_pos on a valid order of its own: it draws
\* its order_id, then save_order_to_file reads the file and writes it back
\* with its record appended, then save_order_to_csv appends its row.  The
\* steps of different programs interleave; a read or a write of the file is
\* taken as one step.
\* ------------------------------------------------------------------------
\* the number of programs committing
MaxSessions == 2

Committers == 1..MaxSessions

\* the order of program k: valid, and told from the others by its quantity
OrderOfSession(k) ==
    [items |-> <<[category |-> StrV(<<"P","i","z","z","a">>), name |-> StrV(<<"C","h","i","c","k","e","n"," ","S","u","r","p","r","i","s","e">>),
                  size |-> StrV(<<"L","a","r","g","e">>), quantity |-> IntV(k)]>>,
     address |-> StrV(<<"1","2"," ","m","a","i","n"," ","s","t","r","e","e","t">>),
     phone |-> StrV(<<"0","3","0","0","1","2","3","4","5","6","7">>)]

InitCommits ==
    /\ state = CONFIRM_ORDER
    /\ current_order = << >>
    /\ temp_item = EmptyDict
    /\ customer_address = StrV(<< >>)
    /\ customer_phone = StrV(<< >>)
    /\ conversation_history = <<"system">>
    /\ orders_file = << >>
    /\ orders_csv = << >>
    /\ spoken = << >>
    /\ pos_resp = NoPosResp
    /\ result = "CONTINUE"
    /\ qty_text = << >>
    /\ qty = NoneV
    /\ commits = [k \in Committers |-> [pc |-> "send_to_pos", order_id |-> << >>, orders |-> << >>]]

\* send_to_pos up to its call of save_order_to_file: the order is valid, and
\* random.randint gives the order_id
DrawOrderId(k) ==
    /\ commits[k].pc = "send_to_pos"
    /\ validate_order(OrderOfSession(k))[1]
    /\ \E id \in OrderIds :
          commits' = [commits EXCEPT ![k] = [pc |-> "read", order_id |-> id, orders |-> << >>]]
    /\ UNCHANGED <<state, current_order, temp_item, customer_address, customer_phone,
                   conversation_history, orders_file, orders_csv, spoken, pos_resp,
                   result, qty_text, qty>>

\* save_order_to_file: orders = json.load(f), or [] when there is no file
ReadOrders(k) ==
    /\ commits[k].pc = "read"
    /\ commits' = [commits EXCEPT ![k].pc = "write", ![k].orders = orders_file]
    /\ UNCHANGED <<state, current_order, temp_item, customer_address, customer_phone,
                   conversation_history, orders_file, orders_csv, spoken, pos_resp,
                   result, qty_text, qty>>

\* save_order_to_file: orders.append(order_data); json.dump(orders, f)
WriteOrders(k) ==
    /\ commits[k].pc = "write"
    /\ orders_file' = save_order_to_file(commits[k].orders,
                           order_data_of(OrderOfSession(k), commits[k].order_id), TRUE)
    /\ commits' = [commits EXCEPT ![k].pc = "csv"]
    /\ UNCHANGED <<state, current_order, temp_item, customer_address, customer_phone,
                   conversation_history, orders_csv, spoken, pos_resp,
                   result, qty_text, qty>>

\* save_order_to_csv appends its row, and send_to_pos returns success
AppendCsv(k) ==
    /\ commits[k].pc = "csv"
    /\ orders_csv' = save_order_to_csv(orders_csv,
                          order_data_of(OrderOfSession(k), commits[k].order_id), TRUE)
    /\ commits' = [commits EXCEPT ![k].pc = "success"]
    /\ UNCHANGED <<state, current_order, temp_item, customer_address, customer_phone,
                   conversation_history, orders_file, spoken, pos_resp,
                   result, qty_text, qty>>

Commit ==
    \E k \in Committers :
       \/ DrawOrderId(k)
       \/ ReadOrders(k)
       \/ WriteOrders(k)
       \/ AppendCsv(k)

SpecCommits == InitCommits /\ [][Commit]_vars

\* ------------------------------------------------------------------------
\* Properties.  The properties of a turn are stated on every session a turn
\* can end in from the current state: Outcomes(u) for the utterance u.
\* ------------------------------------------------------------------------
Outcomes(u) ==
    UNION {{process_input(Session, u, r, io) : io \in IOsFor(u, r)} : r \in ResponsesFor(u)}

\* the session a turn without LLM call ends in
Outcome(u) == process_input(Session, u, NoResponse, NoIO)

\* the value of a field of an item is there and is not "...", "" or None
Given(item, field) ==
    field \in DOMAIN item /\ item[field] \notin {StrV(<<".",".",".">>), StrV(<< >>), NoneV}

\* as Given, and neither is the value Ellipsis nor does it contain "..."
Resolved(item, field) ==
    /\ Given(item, field)
    /\ item[field] # EllipsisV
    /\ IsStr(item[field]) => ~Contains(item[field].s, <<".",".",".">>)

\* a cart that is not empty and whose items have a name and a size
CompleteCart(items) ==
    /\ Len(items) > 0
    /\ \A i \in 1..Len(items) : Given(items[i], "name") /\ Given(items[i], "size")

\* the category of the item takes a size (the pizza category does)
NeedsSize(item) == DictGet(item, "category") = StrV(<<"P","i","z","z","a">>)

\* a cart that is not empty and whose items have a name and, where the
\* category takes one, a size
CompleteCartByCategory(items) ==
    /\ Len(items) > 0
    /\ \A i \in 1..Len(items) :
          Given(items[i], "name") /\ (NeedsSize(items[i]) => Given(items[i], "size"))

\* C1: a commit (send_to_pos) on a session that fails validation returns the
\* validation error and changes nothing: no record is appended to orders.json
\* or orders.csv, and cart, address and phone are as before.  With a complete
\* cart and a valid phone but an invalid address the error is exactly
\* "Missing details: valid address".  And every record of the order log has a
\* cart that is not empty, a valid address and a valid phone.
C1_FailedCommitChangesNothing ==
    /\ ~validate_order(OrderOf(Session))[1] =>
          \A io \in IOs :
             \E P \in {call_send_to_pos(Session, io)} :
                /\ P.pos_resp = [status |-> "error",
                                 message |-> validate_order(OrderOf(Session))[2]]
                /\ [P EXCEPT !.pos_resp = NoPosResp] = Session
                /\ (/\ CompleteCart(current_order)
                    /\ is_valid_phone(customer_phone)
                    /\ ~is_valid_address(customer_address))
                   => P.pos_resp.message = <<"M","i","s","s","i","n","g"," ","d","e","t","a","i","l","s",":"," ","v","a","l","i","d"," ","a","d","d","r","e","s","s">>
    /\ pos_resp.status = "error" => orders_file = << >> /\ orders_csv = << >>
    /\ \A i \in 1..Len(orders_file) :
          /\ Len(orders_file[i].items) > 0
          /\ is_valid_address(orders_file[i].address)
          /\ is_valid_phone(orders_file[i].phone)

\* a turn has committed a complete cart with a valid phone and an invalid
\* address, and was refused
C1_Witness ==
    /\ pos_resp = [status |-> "error", message |-> <<"M","i","s","s","i","n","g"," ","d","e","t","a","i","l","s",":"," ","v","a","l","i","d"," ","a","d","d","r","e","s","s">>]
    /\ CompleteCart(current_order)
    /\ is_valid_phone(customer_phone)
    /\ orders_file = << >>

C3_ExitCommandEndsTheSession ==
    result = "CONTINUE" =>
       \A u \in Utterances :
          Lower(u) \in {<<"e","x","i","t">>, <<"q","u","i","t">>, <<"b","y","e">>, <<"c","a","n","c","e","l">>} =>
             Outcome(u) = [Session EXCEPT !.spoken = <<"Thanks for calling! Have a great day!">>,
                                          !.result = "EXIT"]

\* the session was ended by an exit command with an item in the cart
C3_Witness ==
    /\ result = "EXIT"
    /\ spoken = <<"Thanks for calling! Have a great day!">>
    /\ state = ASK_MORE
    /\ Len(current_order) > 0
    /\ orders_file = << >>

\* C4: in every phase, an utterance with an order-inquiry keyword gets the
\* cart summary, and the phase, the cart, the pending item, the address and
\* the phone are left as they were.
C4_OrderInquiryInEveryPhase ==
    result = "CONTINUE" =>
       \A u \in Utterances :
          Facts[u].is_order_inquiry /\ ~Facts[u].is_exit_command =>
             \A T \in Outcomes(u) :
                /\ T.spoken = <<get_order_summary_text(Session)>>
                /\ T.state = state
                /\ T.current_order = current_order
                /\ T.temp_item = temp_item
                /\ T.customer_address = customer_address
                /\ T.customer_phone = customer_phone

\* C5: in ASK_SIZE, an utterance in which a size is detected finalizes the
\* pending item: the cart gains exactly the pending item with that size at
\* its end, the pending item is cleared and the phase becomes ASK_MORE.
C5_AskSizeFinalizesThePendingItem ==
    result = "CONTINUE" /\ state = ASK_SIZE =>
       \A u \in Utterances :
          Facts[u].detect_pizza_size # << >> /\ ~Facts[u].is_exit_command =>
             /\ Outcome(u).current_order
                   = Append(current_order,
                            DictSet(temp_item, "size", StrV(Title(Facts[u].detect_pizza_size[1]))))
             /\ Outcome(u).temp_item = EmptyDict
             /\ Outcome(u).state = ASK_MORE
             /\ Outcome(u).result = "CONTINUE"

\* C6: in GREETING, ASK_ITEM or ASK_MORE, a pizza request that is no menu
\* inquiry, order inquiry or completion signal leaves the cart as it is and
\* stashes a pending item with the extracted quantity; with a flavor
\* detected, the pending item has the flavor (title-cased) as its name and
\* the phase becomes ASK_SIZE; without, it has no name and the phase becomes
\* ASK_FLAVOR.  "two chicken surprise pizzas" gives quantity 2 and the name
\* "Chicken Surprise".
C6_PizzaRequestStashesPendingItem ==
    result = "CONTINUE" /\ state \in {GREETING, ASK_ITEM, ASK_MORE} =>
       \A u \in Utterances :
          (/\ Facts[u].is_pizza_request
           /\ ~Facts[u].is_menu_inquiry
           /\ ~Facts[u].is_order_inquiry
           /\ ~Facts[u].is_done
           /\ ~Facts[u].is_exit_command) =>
             \E T \in {Outcome(u)} :
                /\ T.current_order = current_order
                /\ T.result = "CONTINUE"
                /\ DictGet(T.temp_item, "quantity") = IntV(extract_quantity(u))
                /\ IF detect_pizza_flavor(u) # << >>
                   THEN /\ DictGet(T.temp_item, "name") = StrV(Title(detect_pizza_flavor(u)[1]))
                        /\ T.state = ASK_SIZE
                   ELSE /\ "name" \notin DOMAIN T.temp_item
                        /\ T.state = ASK_FLAVOR
                /\ u = <<"t","w","o"," ","c","h","i","c","k","e","n"," ","s","u","r","p","r","i","s","e"," ","p","i","z","z","a","s">> =>
                      /\ T.temp_item["quantity"] = IntV(2)
                      /\ T.temp_item["name"] = StrV(<<"C","h","i","c","k","e","n"," ","S","u","r","p","r","i","s","e">>)

\* "two chicken surprise pizzas" was said in ASK_MORE, with an item in the cart
C6_Witness ==
    /\ state = ASK_SIZE
    /\ spoken = <<"{qty} {flavor} pizza. Which size?">>
    /\ DictGet(temp_item, "quantity") = IntV(2)
    /\ DictGet(temp_item, "name") = StrV(<<"C","h","i","c","k","e","n"," ","S","u","r","p","r","i","s","e">>)
    /\ Len(current_order) > 0

\* C7: in ASK_MORE, a completion signal moves the phase to COLLECT_ADDRESS
\* if the stored address is invalid, else to COLLECT_PHONE if the stored phone
\* is invalid, else to CONFIRM_ORDER; the cart is as before, and no commit
\* is attempted.  (The fields are those the turn leaves, also when the
\* summary of CONFIRM_ORDER then raises.)
C7_CompletionRouting ==
    result = "CONTINUE" /\ state = ASK_MORE =>
       \A u \in Utterances :
          Facts[u].is_done /\ ~Facts[u].is_exit_command =>
             \E T \in {Outcome(u)} :
                /\ T.state = IF ~is_valid_address(customer_address) THEN COLLECT_ADDRESS
                             ELSE IF ~is_valid_phone(customer_phone) THEN COLLECT_PHONE
                             ELSE CONFIRM_ORDER
                /\ T.current_order = current_order
                /\ T.pos_resp = NoPosResp
                /\ T.orders_file = orders_file
                /\ T.orders_csv = orders_csv

\* the order was completed with a valid address and no valid phone
C7_Witness ==
    /\ state = COLLECT_PHONE
    /\ spoken = <<"Got the address. And your phone number please?">>
    /\ is_valid_address(customer_address)
    /\ ~is_valid_phone(customer_phone)
    /\ Len(current_order) > 0

\* the text in which handle_collect_phone searches
Stripped(u) == RemoveChar(RemoveChar(u, " "), "-")

\* n digits from position i of text
DigitsAt(text, i, n) ==
    i + n - 1 <= Len(text) /\ \A k \in i..(i + n - 1) : IsDigit(text[k])

HasPhoneRun(text) == \E i \in 1..Len(text) : DigitsAt(text, i, 9)

\* the leftmost run of at least 9 digits, cut after 15
FirstPhoneRun(text) ==
    LET i == CHOOSE a \in 1..Len(text) :
                 DigitsAt(text, a, 9) /\ \A b \in 1..(a - 1) : ~DigitsAt(text, b, 9)
        n == CHOOSE m \in 9..15 :
                 DigitsAt(text, i, m) /\ (m = 15 \/ ~DigitsAt(text, i, m + 1))
    IN SubSeq(text, i, i + n - 1)

\* C8: in COLLECT_PHONE, an utterance with a run of 9 to 15 digits, spaces
\* and dashes removed, stores that digit run as the phone and moves the phase
\* to CONFIRM_ORDER ("my number is 0300 1234567" stores "03001234567");
\* an utterance without such a run only re-prompts: phone, address, cart and
\* phase are as before.
C8_PhoneExtraction ==
    result = "CONTINUE" /\ state = COLLECT_PHONE =>
       \A u \in Utterances :
          ~Facts[u].is_exit_command =>
             \E T \in {Outcome(u)} :
                /\ IF HasPhoneRun(Stripped(u))
                   THEN /\ T.customer_phone = StrV(FirstPhoneRun(Stripped(u)))
                        /\ T.state = CONFIRM_ORDER
                        /\ T.current_order = current_order
                        /\ T.customer_address = customer_address
                   ELSE T = [Session EXCEPT
                               !.spoken = <<"I didn't catch the phone number. Please say it again?">>]
                /\ u = <<"m","y"," ","n","u","m","b","e","r"," ","i","s"," ","0","3","0","0"," ","1","2","3","4","5","6","7">> => T.customer_phone = StrV(<<"0","3","0","0","1","2","3","4","5","6","7">>)

\* "my number is 0300 1234567" was said in COLLECT_PHONE
C8_Witness ==
    /\ state = CONFIRM_ORDER
    /\ customer_phone = StrV(<<"0","3","0","0","1","2","3","4","5","6","7">>)
    /\ customer_address = StrV(<<"1","2"," ","m","a","i","n"," ","s","t","r","e","e","t">>)
    /\ spoken = <<"Let me confirm. {summary}. Delivering to {customer_address}. Phone {customer_phone}. Is this correct?">>

\* C9: in CONFIRM_ORDER, an affirmative utterance whose commit fails
\* validation does not end the session and tells the customer the missing
\* details: the phase becomes COLLECT_ADDRESS when the address is invalid and
\* COLLECT_PHONE when the phone is and the address is not; the cart is as
\* before and nothing is saved.
C9_FailedConfirmationRedirects ==
    result = "CONTINUE" /\ state = CONFIRM_ORDER /\ ~validate_order(OrderOf(Session))[1] =>
       \A u \in Utterances :
          Facts[u].is_affirmative /\ ~Facts[u].is_exit_command =>
             \A T \in Outcomes(u) :
                /\ T.result = "CONTINUE"
                /\ T.spoken = <<"I can't confirm yet. {message}">>
                /\ T.pos_resp = [status |-> "error",
                                 message |-> validate_order(OrderOf(Session))[2]]
                /\ ~is_valid_address(customer_address) => T.state = COLLECT_ADDRESS
                /\ (is_valid_address(customer_address) /\ ~is_valid_phone(customer_phone))
                      => T.state = COLLECT_PHONE
                /\ T.current_order = current_order
                /\ T.orders_file = orders_file
                /\ T.orders_csv = orders_csv

\* a confirmation was refused for the address and the phase redirected
C9_Witness ==
    /\ state = COLLECT_ADDRESS
    /\ spoken = <<"I can't confirm yet. {message}">>
    /\ pos_resp.status = "error"
    /\ Len(current_order) > 0
    /\ result = "CONTINUE"

\* C10: every item of the cart has a resolved name and a resolved size:
\* neither is missing, None, empty or Ellipsis, nor contains "...".
C10_CartItemsResolved ==
    \A i \in 1..Len(current_order) :
       Resolved(current_order[i], "name") /\ Resolved(current_order[i], "size")

\* the cart holds an item that an ADD_ITEM directive appended
C10_Witness ==
    /\ Len(current_order) > 0
    /\ current_order[1]["name"] = StrV(<<"F","a","j","i","t","a">>)
    /\ current_order[1]["size"] = StrV(<<"L","a","r","g","e">>)
    /\ state = GREETING

\* C11: every item of the cart, and the pending item if there is one, has a
\* quantity that is an integer of at least 1 (an item whose quantity was not
\* given has the quantity 1).
C11_QuantitiesPositive ==
    /\ \A i \in 1..Len(current_order) :
          /\ "quantity" \in DOMAIN current_order[i]
          /\ current_order[i]["quantity"].t = "int"
          /\ current_order[i]["quantity"].n >= 1
    /\ temp_item # EmptyDict =>
          /\ "quantity" \in DOMAIN temp_item
          /\ temp_item["quantity"].t = "int"
          /\ temp_item["quantity"].n >= 1

\* the values of the digit tokens of a text, leftmost first (as a set: the
\* value of the leftmost one)
FirstDigitToken(t) ==
    LET i == CHOOSE a \in DigitTokenStarts(t) : \A b \in DigitTokenStarts(t) : a <= b
    IN ParseInt(SubSeq(t, i, DigitRunEnd(t, i)))

\* C12: extract_quantity returns, for every text, an integer of at least 1:
\* the value of the first standalone digit token if there is one, else the
\* value of a number word (one..ten) of the text, else 1.
C12_ExtractQuantityAtLeastOne ==
    qty # NoneV =>
       /\ qty.t = "int"
       /\ qty.n >= 1
       /\ IF DigitTokenStarts(qty_text) # {}
          THEN qty.n = FirstDigitToken(qty_text)
          ELSE IF \E w \in 1..Len(number_words) : Contains(Lower(qty_text), number_words[w][1])
          THEN \E w \in 1..Len(number_words) :
                  Contains(Lower(qty_text), number_words[w][1]) /\ qty.n = number_words[w][2]
          ELSE qty.n = 1

\* the item names of the menu catalog
MenuItemNames == {MenuRows[i][2] : i \in 1..Len(MenuRows)}

\* C13: the name of every item of the cart is an item name of the menu
\* catalog, exactly as the menu spells it.
C13_CartNamesFromTheMenu ==
    \A i \in 1..Len(current_order) :
       /\ "name" \in DOMAIN current_order[i]
       /\ IsStr(current_order[i]["name"])
       /\ current_order[i]["name"].s \in MenuItemNames

\* the replies of the LLM that carry a decoded ADD_ITEM payload
AddItemReplies == {r \in Responses : r.add_item.kind = "dict"}

\* C14: a turn that gets a reply with an ADD_ITEM directive from the LLM (a
\* call of the LLM that the session may still make), in whatever phase: a
\* complete item (name and size resolved) is appended to
\* the cart, and the phase and the pending item are as before; an incomplete
\* item with a name becomes the pending item, the cart is as before and the
\* phase becomes ASK_SIZE; an incomplete item without a name leaves the cart,
\* the pending item and the phase as before.
C14_AddItemDirective ==
    result = "CONTINUE" /\ LLMCalls < MaxLLMCalls /\ CartPrintable(Session) =>
       \A u \in Utterances :
          uses_llm(state, Facts[u]) =>
             \A r \in AddItemReplies : \A io \in (IF r.save_order THEN IOs ELSE {NoIO}) :
                \E T \in {process_input(Session, u, r, io)} :
                   IF Resolved(r.add_item.d, "name") /\ Resolved(r.add_item.d, "size")
                   THEN /\ Len(T.current_order) = Len(current_order) + 1
                        /\ SubSeq(T.current_order, 1, Len(current_order)) = current_order
                        /\ T.current_order[Len(T.current_order)]["name"] = r.add_item.d["name"]
                        /\ T.current_order[Len(T.current_order)]["size"] = r.add_item.d["size"]
                        /\ T.state = state
                        /\ T.temp_item = temp_item
                   ELSE IF Resolved(r.add_item.d, "name")
                   THEN /\ T.current_order = current_order
                        /\ T.state = ASK_SIZE
                        /\ T.temp_item # EmptyDict
                        /\ T.temp_item["name"] = r.add_item.d["name"]
                        /\ ~Resolved(T.temp_item, "size")
                   ELSE /\ T.current_order = current_order
                        /\ T.state = state
                        /\ T.temp_item = temp_item

\* in ASK_MORE, with an item in the cart, the LLM replied with an ADD_ITEM
\* that has a name and no size
C14_Witness ==
    /\ state = ASK_SIZE
    /\ Len(current_order) > 0
    /\ DictGet(current_order[1], "category") = StrV(<<"P","i","z","z","a">>)
    /\ DictGet(temp_item, "name") = StrV(<<"F","a","j","i","t","a">>)
    /\ DictGet(temp_item, "size") = NoneV
    /\ conversation_history = <<"system", "user", "assistant">>

\* the replies of the LLM that contain [SAVE_ORDER]
SaveOrderReplies == {r \in Responses : r.save_order}

\* the cart is not empty and the address and the phone are set
ReadyToSave(T) ==
    /\ Len(T.current_order) > 0
    /\ Truthy(T.customer_address)
    /\ Truthy(T.customer_phone)

\* C15: a turn that gets a reply with [SAVE_ORDER] from the LLM (a call of
\* the LLM that the session may still make) commits
\* (calls send_to_pos) only if, with the other directives of the reply
\* applied, the cart is not empty and the address and the phone are set.
\* Otherwise the directive does nothing: the turn ends as it does on the same
\* reply without [SAVE_ORDER], so nothing is committed or appended to the
\* order log, the phase, cart, address and phone are those the other
\* directives left, and only the reply is spoken.
C15_SaveOrderDirective ==
    result = "CONTINUE" /\ LLMCalls < MaxLLMCalls /\ CartPrintable(Session) =>
       \A u \in Utterances :
          uses_llm(state, Facts[u]) =>
             \A r \in SaveOrderReplies : \A io \in IOs :
                \E T \in {process_input(Session, u, r, io)} :
                   /\ T.pos_resp # NoPosResp <=> ReadyToSave(T)
                   /\ ~ReadyToSave(T) =>
                         /\ T = process_input(Session, u, [r EXCEPT !.save_order = FALSE], io)
                         /\ T.orders_file = orders_file
                         /\ T.orders_csv = orders_csv
                         /\ T.spoken = <<"{cleaned_response}">>
                         /\ T.result = "CONTINUE"

\* in ASK_MORE, the LLM replied with a SET_DETAILS that set an address and a
\* phone and with [SAVE_ORDER]: the commit was attempted on them, and refused
C15_Witness ==
    /\ state = ASK_MORE
    /\ Len(current_order) > 0
    /\ customer_address = StrV(<<".",".",".">>)
    /\ customer_phone = StrV(<<"5","5","5">>)
    /\ pos_resp.status = "error"
    /\ spoken = <<"I cannot save the order yet. {message}", "{cleaned_response}">>
    /\ orders_file = << >>

\* replies in which the payload of one directive is malformed, next to
\* every other directive
MalformedReplies ==
    {Reply(Malformed, d, FALSE) : d \in SetDetails}
    \cup {Reply(a, Malformed, FALSE) : a \in AddItems}
    \cup {Reply(Malformed, Payload(DetailsValid), TRUE),
          Reply(Payload(ItemFull), Malformed, TRUE)}

\* the reply r with its malformed directives left out
WithoutMalformed(r) ==
    [r EXCEPT !.add_item = IF @ = Malformed THEN Absent ELSE @,
              !.set_details = IF @ = Malformed THEN Absent ELSE @]

\* C16: a turn that gets a reply in which the payload of a directive is
\* malformed (from a call of the LLM that the session may still make) does
\* not raise, and ends as it does on the same reply without
\* that directive: a malformed ADD_ITEM leaves the cart, the pending item and
\* the phase as they were, a malformed SET_DETAILS leaves the address and the
\* phone as they were, and the other directives of the reply are applied.
C16_MalformedPayloadIgnored ==
    result = "CONTINUE" /\ LLMCalls < MaxLLMCalls /\ CartPrintable(Session) =>
       \A u \in Utterances :
          uses_llm(state, Facts[u]) =>
             \A r \in MalformedReplies : \A io \in {NoIO} :
                \E T \in {process_input(Session, u, r, io)} :
                   /\ T.result # "RAISED"
                   /\ T = process_input(Session, u, WithoutMalformed(r), io)
                   /\ r.add_item = Malformed =>
                         /\ T.current_order = current_order
                         /\ T.temp_item = temp_item
                         /\ T.state = state
                         /\ (r.set_details.kind = "dict" /\ "address" \in DOMAIN r.set_details.d)
                               => T.customer_address = r.set_details.d["address"]
                         /\ (r.set_details.kind = "dict" /\ "phone" \in DOMAIN r.set_details.d)
                               => T.customer_phone = r.set_details.d["phone"]
                   /\ r.set_details = Malformed =>
                         /\ T.customer_address = customer_address
                         /\ T.customer_phone = customer_phone
                         /\ r.add_item = Payload(ItemFull) =>
                               T.current_order = Append(current_order, ItemFull)

\* in ASK_MORE, with an item in the cart and no address yet, a reply with a
\* malformed ADD_ITEM and a SET_DETAILS is possible: the details are set and
\* the cart is left alone
C16_Witness ==
    /\ result = "CONTINUE"
    /\ state = ASK_MORE
    /\ Len(current_order) > 0
    /\ customer_address = StrV(<< >>)
    /\ LLMCalls < MaxLLMCalls
    /\ uses_llm(state, Facts[<<"y","e","s">>])
    /\ \E T \in {process_input(Session, <<"y","e","s">>,
                               Reply(Malformed, Payload(DetailsValid), FALSE), NoIO)} :
          /\ T.customer_address = StrV(<<"1","2"," ","m","a","i","n"," ","s","t","r","e","e","t">>)
          /\ T.current_order = current_order
          /\ T.result = "CONTINUE"

\* the replies of the LLM in which no payload is malformed
WellFormedReplies ==
    {r \in Responses : r.failed = "no" /\ r.add_item # Malformed /\ r.set_details # Malformed}

\* C17: parsing a well-formed reply is idempotent: when
\* parse_and_execute_tools has been applied to a reply, applying it to the
\* same reply again leaves the cart (and the pending item, the phase, the
\* address and the phone) as the first parse left them, so that no item is
\* added twice.
C17_ParsingIdempotent ==
    \A r \in WellFormedReplies : \A io \in (IF r.save_order THEN IOs ELSE {NoIO}) :
       \E P \in {parse_and_execute_tools(Session, r, io)} :
          P.result = "CONTINUE" =>
             \E Q \in {parse_and_execute_tools(P, r, io)} :
                /\ Q.current_order = P.current_order
                /\ Q.temp_item = P.temp_item
                /\ Q.state = P.state
                /\ Q.customer_address = P.customer_address
                /\ Q.customer_phone = P.customer_phone

\* what call_llm returns when the call failed: its fallback sentences
FailedReplies == {r \in Responses : r.failed # "no"}

\* C18: a turn whose LLM call fails (an error, a timeout or an empty reply)
\* speaks the fallback sentence and changes nothing in the session: the
\* phase, the cart, the pending item, the address, the phone and the
\* transcript are after the turn as they were before it.
C18_FailedLLMCallChangesNothing ==
    result = "CONTINUE" /\ CartPrintable(Session) =>
       \A u \in Utterances :
          uses_llm(state, Facts[u]) =>
             \A r \in FailedReplies :
                \E T \in {process_input(Session, u, r, NoIO)} :
                   /\ T.result = "CONTINUE"
                   /\ T.spoken \in {<<"Sorry, could you repeat that?">>,
                                    <<"I didn't catch that. Could you say it again?">>}
                   /\ T.state = state
                   /\ T.current_order = current_order
                   /\ T.temp_item = temp_item
                   /\ T.customer_address = customer_address
                   /\ T.customer_phone = customer_phone
                   /\ T.conversation_history = conversation_history

\* C19: in CONFIRM_ORDER, when the customer confirms an order that passes
\* validation and the write of the order log fails, the commit is not
\* reported as a success: the customer is told that the order cannot be
\* saved yet, and the session goes on in CONFIRM_ORDER.
C19_FailedLogWriteIsReported ==
    (/\ result = "CONTINUE"
     /\ state = CONFIRM_ORDER
     /\ validate_order(OrderOf(Session))[1]) =>
       \A u \in Utterances :
          Facts[u].is_affirmative /\ ~Facts[u].is_exit_command =>
             \A io \in {x \in IOs : ~x.file_ok} :
                \E T \in {process_input(Session, u, NoResponse, io)} :
                   /\ T.orders_file = orders_file
                   /\ T.pos_resp.status # "success"
                   /\ T.result = "CONTINUE"
                   /\ T.state = CONFIRM_ORDER
                   /\ T.spoken # <<"Perfect! Your order {order_id} is confirmed. Estimated delivery in 30-45 minutes. Thank you!">>

\* C20: no turn ends in an unhandled error: every turn gives control back
\* to the loop of main, with CONTINUE or with EXIT.
C20_NoUnhandledError ==
    result \in {"CONTINUE", "EXIT"}

\* C21: any two records of the order log have different order identifiers.
C21_OrderIdsUnique ==
    \A i \in 1..Len(orders_file) : \A j \in 1..Len(orders_file) :
       i # j => orders_file[i].order_id # orders_file[j].order_id

\* C22: when the programs that commit concurrently have all succeeded, the
\* order log holds the record of each of them.
C22_ConcurrentCommitsKeepBothRecords ==
    (\A k \in Committers : commits[k].pc = "success") =>
       \A k \in Committers :
          \E i \in 1..Len(orders_file) : orders_file[i].items = OrderOfSession(k).items

\* a cap on the transcript that the sessions explored can exceed: the
\* source configures none
TranscriptCap == 2 * MaxLLMCalls

\* C23: the transcript is bounded: its length never exceeds the cap (the
\* oldest messages are evicted when a new one would exceed it).
C23_TranscriptBounded ==
    Len(conversation_history) <= TranscriptCap

\* C24: a turn that moves the phase to CONFIRM_ORDER (from COLLECT_PHONE when
\* a phone is extracted, or from ASK_MORE on completion with a valid address
\* and a valid phone) speaks the confirmation summary, and the stored address
\* and, from ASK_MORE, the stored phone are as before.
C24_ConfirmationSummary ==
    result = "CONTINUE" /\ state \in {COLLECT_PHONE, ASK_MORE} =>
       \A u \in Utterances :
          ~Facts[u].is_exit_command /\ ~uses_llm(state, Facts[u]) =>
             \E T \in {Outcome(u)} :
                T.state = CONFIRM_ORDER =>
                   /\ T.spoken = <<"Let me confirm. {summary}. Delivering to {customer_address}. Phone {customer_phone}. Is this correct?">>
                   /\ T.result = "CONTINUE"
                   /\ T.current_order = current_order
                   /\ T.customer_address = customer_address
                   /\ state = ASK_MORE => T.customer_phone = customer_phone

\* the session has ended: process_input returned EXIT, or sys.exit was
\* called, or an exception escaped
Terminated == result # "CONTINUE"

\* C25: a session creates at most one record of the order log: a successful
\* commit (by an affirmative in CONFIRM_ORDER or by a [SAVE_ORDER] directive)
\* ends the session, and an ended session takes no further utterance.
C25_AtMostOneConfirmedOrder ==
    /\ Len(orders_file) <= 1
    /\ Len(orders_csv) <= 1
    /\ pos_resp.status = "success" => result \in {"EXIT", "SYSEXIT"}
    /\ Len(orders_file) > 0 \/ Len(orders_csv) > 0 => Terminated
    /\ Terminated => ~ENABLED Next

\* the customer confirmed in CONFIRM_ORDER and the record was appended
C25_Witness ==
    /\ result = "EXIT"
    /\ state = CONFIRM_ORDER
    /\ pos_resp.status = "success"
    /\ Len(orders_file) = 1
    /\ orders_file[1].order_id = pos_resp.order_id

\* C26: the pending item is non-empty exactly in ASK_FLAVOR and ASK_SIZE,
\* and in ASK_SIZE it has a resolved name.
C26_PendingItemMatchesPhase ==
    /\ temp_item # EmptyDict <=> state \in {ASK_FLAVOR, ASK_SIZE}
    /\ state = ASK_SIZE => Resolved(temp_item, "name")

\* the LLM's [ADD_ITEM] without a size has stored the pending item and
\* moved the session to ASK_SIZE
C26_Witness ==
    /\ state = ASK_SIZE
    /\ result = "CONTINUE"
    /\ Len(conversation_history) > 1
    /\ Resolved(temp_item, "name")
    /\ "size" \in DOMAIN temp_item
    /\ temp_item["size"] = NoneV

\* s is a prefix of t
IsPrefix(s, t) == Len(s) <= Len(t) /\ \A i \in 1..Len(s) : t[i] = s[i]

\* C27: in ASK_MORE, COLLECT_ADDRESS, COLLECT_PHONE and CONFIRM_ORDER the
\* cart is non-empty, and no turn removes or reorders the items of the cart:
\* after every turn (a turn delegated to the LLM being one the session may
\* still make) the cart before it is a prefix of the cart.
C27_CartNonEmptyAndAppendOnly ==
    /\ state \in {ASK_MORE, COLLECT_ADDRESS, COLLECT_PHONE, CONFIRM_ORDER}
           => current_order # << >>
    /\ result = "CONTINUE"
           => \A u \in Utterances :
                  (uses_llm(state, Facts[u]) => LLMCalls < MaxLLMCalls)
                  => \A r \in ResponsesFor(u) :
                         IsPrefix(current_order,
                                  process_input(Session, u, r, NoIO).current_order)

\* an item was finalized in ASK_SIZE and the session asks for more
C27_Witness ==
    /\ state = ASK_MORE
    /\ result = "CONTINUE"
    /\ Len(current_order) = 1
    /\ temp_item = EmptyDict
    /\ Resolved(current_order[1], "size")

\* C28: in CONFIRM_ORDER the stored phone passes is_valid_phone; a commit
\* attempted in CONFIRM_ORDER that fails validation fails on the address
\* alone and sends the session to COLLECT_ADDRESS, and no turn taken in
\* CONFIRM_ORDER sends the session to COLLECT_PHONE.
C28_PhoneValidInConfirmOrder ==
    state = CONFIRM_ORDER
        => /\ customer_phone # NoneV
           /\ is_valid_phone(customer_phone)
           /\ result = "CONTINUE"
                  => \A u \in Utterances : \A T \in Outcomes(u) :
                         /\ T.state # COLLECT_PHONE
                         /\ T.pos_resp.status = "error"
                                => /\ T.pos_resp.message = <<"M","i","s","s","i","n","g"," ","d","e","t","a","i","l","s",":"," ","v","a","l","i","d"," ","a","d","d","r","e","s","s">>
                                   /\ T.state = COLLECT_ADDRESS

\* the customer confirmed in CONFIRM_ORDER with a valid phone and an address
\* that is not valid: the commit failed and the session asks for the address
C28_Witness ==
    /\ state = COLLECT_ADDRESS
    /\ result = "CONTINUE"
    /\ pos_resp.status = "error"
    /\ is_valid_phone(customer_phone)
    /\ spoken # << >>

\* C29: in ASK_FLAVOR or ASK_SIZE, a turn whose reply from the LLM appends a
\* complete item (name and size resolved) to the cart ends with the pending
\* item cleared and the phase outside ASK_FLAVOR and ASK_SIZE.
C29_CompleteAddItemClearsPending ==
    result = "CONTINUE" /\ state \in {ASK_FLAVOR, ASK_SIZE} /\ LLMCalls < MaxLLMCalls =>
       \A u \in Utterances :
          uses_llm(state, Facts[u]) =>
             \A r \in AddItemReplies :
                Resolved(r.add_item.d, "name") /\ Resolved(r.add_item.d, "size") =>
                   \E T \in {process_input(Session, u, r, NoIO)} :
                      Len(T.current_order) = Len(current_order) + 1 =>
                         /\ T.temp_item = EmptyDict
                         /\ T.state \notin {ASK_FLAVOR, ASK_SIZE}
====
